---- MODULE Spec2Model ----
(***************************************************************************)
(* Model of django_opentracing/tracing.py: the DjangoTracing object, its   *)
(* per-request scope stacks (_current_scopes), the trace() wrapper and the  *)
(* helpers _apply_tracing ("begin") and _finish_tracing ("end").           *)
(*                                                                         *)
(* The tracer, its scopes and spans, the request and the wrapped handler   *)
(* are collaborators of the code.  Every call the code makes on them may   *)
(* succeed or raise an Exception; the outcome of each call is an input of  *)
(* the action that makes it.  "Exception" always means an instance of      *)
(* Python's Exception class, the class the code's except clauses name.     *)
(***************************************************************************)
EXTENDS Integers, Sequences, FiniteSets, TLC

\* ---------------------------------------------------------------- bounds
MaxDepth == 2       \* wrapped handlers in flight at once, nested or not
MaxScopes == 2      \* scopes the tracer hands out in one behaviour
MaxFaults == 1      \* collaborator calls that raise in one behaviour
MaxCalls == 3       \* calls of initialize_global_tracer in one behaviour

\* ------------------------------------------------------------ value sets
None == "None"      \* Python's None, for a response, an error, an exception
NoScope == 0        \* Python's None where the code holds a scope or a context
RemoteCtx == -1     \* the span context a valid inbound carrier holds

Requests == {"reqA", "reqB"}
Errors == {"ValueError"}
Responses == {None, "resp404", "no_status"}

CarrierExceptions == {"InvalidCarrierException", "SpanContextCorruptedException"}
ExtractOutcomes ==
    {"ok", "InvalidCarrierException", "SpanContextCorruptedException", "Exception"}
BeginFaults == {"none", "meta", "start_active_span", "inject", "set_tag", "start_span_cb"}
EndFaults == {"none", "set_tag", "log_kv", "close"}

\* the request object: method, full path and named attributes
Method(request) == IF request = "reqA" THEN "GET" ELSE "POST"
FullPath(request) == IF request = "reqA" THEN "/foo" ELSE "/bar"
HasAttr(request, attr) ==
    \/ request = "reqA" /\ attr \in {"user_id", "session"}
    \/ request = "reqB" /\ attr \in {"session"}
GetAttr(request, attr) ==
    IF request = "reqA" /\ attr = "user_id" THEN "alice"
    ELSE IF request = "reqB" /\ attr = "session" THEN "s1"
    ELSE ""
Attributes == <<"user_id", "session">>

\* the response object: status_code, when it has one
HasStatusCode(response) == response = "resp404"
StatusCode(response) == "404"

\* request.META: the inbound carrier of each request
META == [request \in Requests |-> IF request = "reqA" THEN "empty" ELSE "valid"]

ViewName(depth) == IF depth = 0 THEN "outer" ELSE "inner"

Min(a, b) == IF a < b THEN a ELSE b

VARIABLES
    current_scopes,   \* self._current_scopes: request -> list of scopes
    trace_all,        \* self._trace_all
    start_span_cb,    \* self._start_span_cb is not None
    scopes,           \* the scopes the tracer has started, by id 1..Len
    active,           \* the tracer's active scope, per logical flow (request)
    frames,           \* wrapper invocations in flight, per request
    faults,           \* collaborator calls that have raised so far
    returned,         \* what left the wrapper invocation that ended last
    opentracing_tracer,   \* opentracing.tracer, the process-wide default tracer
    complete,         \* initialize_global_tracer.complete
    thread,           \* each thread's position in initialize_global_tracer
    init_calls,       \* calls of initialize_global_tracer so far
    assigns,          \* assignments to opentracing.tracer so far
    overlapped,       \* two calls of initialize_global_tracer have overlapped
    first             \* the tracer of the holder passed to the first call

\* the state of the DjangoTracing object, the tracer and the wrappers
tracking == <<current_scopes, trace_all, start_span_cb, scopes, active, frames,
              faults, returned>>

\* the state of initialize_global_tracer
global == <<opentracing_tracer, complete, thread, init_calls, assigns, overlapped, first>>

vars == <<tracking, global>>

\* A scope that was closed and that the program no longer holds is a finished
\* span: nothing can reach it again, and its record is replaced by Finished.
Finished ==
    [op |-> "finished", child_of |-> NoScope, parent |-> NoScope, tags |-> {},
     logs |-> {}, closes |-> 1, to_restore |-> NoScope, pushed |-> TRUE]

OnStack(cs, scope) == \E r \in DOMAIN cs : \E i \in 1..Len(cs[r]) : cs[r][i] = scope

Collect(sc, cs) ==
    [i \in 1..Len(sc) |->
        IF sc[i].closes >= 1 /\ ~OnStack(cs, i) THEN Finished ELSE sc[i]]

\* The mutable state begin and end work on.
State == [cs |-> current_scopes, sc |-> scopes, act |-> active]

\* ------------------------------------------------- the tracer and the span
Extract(carrier) == IF carrier = "valid" THEN RemoteCtx ELSE NoScope

StartActiveSpan(st, request, operation_name, child_of) ==
    LET id == Len(st.sc) + 1
        s == [op |-> operation_name,
              child_of |-> child_of,
              parent |-> IF child_of # NoScope THEN child_of ELSE st.act[request],
              tags |-> {},
              logs |-> {},
              closes |-> 0,
              to_restore |-> st.act[request],
              pushed |-> FALSE]
    IN [st EXCEPT !.sc = Append(@, s), !.act[request] = id]

SetTag(st, scope, key, value) ==
    [st EXCEPT !.sc[scope].tags = {t \in @ : t[1] # key} \cup {<<key, value>>}]

LogKv(st, scope, error) ==
    [st EXCEPT !.sc[scope].logs = @ \cup {error}]

Close(st, request, scope) ==
    [st EXCEPT !.sc[scope].closes = @ + 1,
               !.act[request] = IF @ = scope THEN st.sc[scope].to_restore ELSE @]

\* ------------------------------------------------------------ get_span
GetSpan(request) ==
    IF request \in DOMAIN current_scopes /\ current_scopes[request] # <<>>
    THEN current_scopes[request][1]
    ELSE NoScope

\* ------------------------------------------------------- _apply_tracing
\* The outcomes of the collaborator calls one begin makes: what extract does,
\* which later call raises (fault), and for set_tag which call of the tag
\* sequence it is (at).
SetTagFaultAt == {3}
NoFaultAt == CHOOSE a \in SetTagFaultAt : TRUE

RECURSIVE AttrTags(_, _)
AttrTags(request, attributes) ==
    IF attributes = <<>> THEN <<>>
    ELSE LET attr == Head(attributes)
             payload == GetAttr(request, attr)
         IN (IF HasAttr(request, attr) /\ payload # ""
             THEN << <<attr, payload>> >> ELSE <<>>)
            \o AttrTags(request, Tail(attributes))

\* TagCalls without the tests of lines 120 and 122
TagCallsUnconditional(request, attributes) ==
    << <<"component", "django">>,
       <<"span.kind", "server">>,
       <<"http.method", Method(request)>>,
       <<"http.url", FullPath(request)>> >>
    \o [i \in 1..Len(attributes) |-> <<attributes[i], GetAttr(request, attributes[i])>>]

\* the set_tag calls of one begin, in order
TagCalls(request, attributes) ==
    << <<"component", "django">>,
       <<"span.kind", "server">>,
       <<"http.method", Method(request)>>,
       <<"http.url", FullPath(request)>> >> \o AttrTags(request, attributes)

RECURSIVE ApplyTags(_, _, _, _)
ApplyTags(st, scope, calls, n) ==
    IF n = 0 THEN st
    ELSE SetTag(ApplyTags(st, scope, calls, n - 1), scope, calls[n][1], calls[n][2])

BeginEnvs(request) ==
    {e \in [extract : ExtractOutcomes, fault : BeginFaults, at : SetTagFaultAt] :
        /\ e.extract = "Exception" => e.fault = "none"
        /\ e.fault = "inject" =>
               e.extract \in {"InvalidCarrierException", "SpanContextCorruptedException"}
        /\ e.fault = "start_span_cb" => start_span_cb
        /\ e.fault # "set_tag" => e.at = NoFaultAt
        /\ e.at <= Len(TagCalls(request, Attributes))}

BeginFaultCount(e) ==
    (IF e.extract = "ok" THEN 0 ELSE 1) + (IF e.fault = "none" THEN 0 ELSE 1)

\* self._current_scopes.setdefault(request, []).append(scope)
Push(st, request, scope) ==
    [st EXCEPT !.cs = IF request \in DOMAIN st.cs
                      THEN [st.cs EXCEPT ![request] = Append(@, scope)]
                      ELSE st.cs @@ (request :> <<scope>>),
               !.sc[scope].pushed = TRUE]

\* the user's callback, called with (span, request)
StartSpanCbBody(env) == IF env.fault = "start_span_cb" THEN "Exception" ELSE None

\* the callback is called in this begin and raises
CbRaises(env) == start_span_cb /\ StartSpanCbBody(env) # None

\* CallStartSpanCb without the except clause of line 163
CallStartSpanCbRaises(st, scope, request, env) ==
    IF ~start_span_cb THEN [st |-> st, exc |-> None]
    ELSE [st |-> st, exc |-> StartSpanCbBody(env)]

\* _call_start_span_cb: return when there is no callback; except Exception: pass
CallStartSpanCb(st, scope, request, env) ==
    IF ~start_span_cb THEN [st |-> st, exc |-> None]
    ELSE LET e == StartSpanCbBody(env)
         IN [st |-> st, exc |-> IF e # None THEN None ELSE None]

\* StartSpan without the except clause of line 102
StartSpanNoFallback(st, request, view_func, env) ==
    IF env.extract = "ok"
    THEN IF env.fault = "start_active_span"
         THEN [st |-> st, exc |-> "Exception"]
         ELSE [st |-> StartActiveSpan(st, request, view_func, Extract(META[request])),
               exc |-> None]
    ELSE [st |-> st, exc |-> env.extract]

\* lines 97-106: extract, start_active_span, and the fallback to a root span
StartSpan(st, request, view_func, env) ==
    IF env.extract = "ok"
    THEN IF env.fault = "start_active_span"
         THEN [st |-> st, exc |-> "Exception"]
         ELSE [st |-> StartActiveSpan(st, request, view_func, Extract(META[request])),
               exc |-> None]
    ELSE IF env.extract \in {"InvalidCarrierException", "SpanContextCorruptedException"}
    THEN IF env.fault = "start_active_span"
         THEN [st |-> st, exc |-> "Exception"]
         ELSE LET st1 == StartActiveSpan(st, request, view_func, NoScope)
              IN [st |-> st1,
                  exc |-> IF env.fault = "inject" THEN "Exception" ELSE None]
    ELSE [st |-> st, exc |-> env.extract]

\* lines 110-127: push, tag, call back, return the scope
TagAndReturn(st, request, attributes, env) ==
    LET scope == Len(st.sc)
        st2 == Push(st, request, scope)
        calls == TagCalls(request, attributes)
        n == IF env.fault = "set_tag" THEN Min(env.at - 1, Len(calls)) ELSE Len(calls)
        st3 == ApplyTags(st2, scope, calls, n)
    IN IF env.fault = "set_tag" /\ env.at <= Len(calls)
       THEN [st |-> st3, ret |-> NoScope, exc |-> "Exception"]
       ELSE LET cb == CallStartSpanCb(st3, scope, request, env)
            IN [st |-> cb.st, ret |-> IF cb.exc = None THEN scope ELSE NoScope,
                exc |-> cb.exc]

\* the body of the try block, lines 87-127
ApplyBody(st, request, view_func, attributes, env) ==
    IF env.fault = "meta"
    THEN [st |-> st, ret |-> NoScope, exc |-> "Exception"]
    ELSE LET s == StartSpan(st, request, view_func, env)
         IN IF s.exc # None
            THEN [st |-> s.st, ret |-> NoScope, exc |-> s.exc]
            ELSE TagAndReturn(s.st, request, attributes, env)

\* ApplyCatch without the except clause of line 129
ApplyNoCatch(b) == [st |-> b.st, ret |-> IF b.exc = None THEN b.ret ELSE NoScope,
                    raised |-> b.exc]

\* line 129: except Exception: log, and return None
ApplyCatch(b) == [st |-> b.st, ret |-> IF b.exc = None THEN b.ret ELSE NoScope,
                  raised |-> None]

ApplyTracing(st, request, view_func, attributes, env) ==
    ApplyCatch(ApplyBody(st, request, view_func, attributes, env))

\* ------------------------------------------------------ _finish_tracing
EndEnvs(response, error) ==
    {e \in [fault : EndFaults] :
        /\ e.fault = "log_kv" => error # None
        /\ e.fault = "set_tag" => (error # None \/ HasStatusCode(response))}

EndFaultCount(response, e) ==
    (IF response # None /\ ~HasStatusCode(response) THEN 1 ELSE 0)
    + (IF e.fault = "none" THEN 0 ELSE 1)

\* Pop without line 140: the key of an emptied list stays
PopKeepsKey(st, request) ==
    LET list == st.cs[request]
    IN [st EXCEPT !.cs[request] = SubSeq(list, 1, Len(list) - 1)]

\* Pop replacing the dictionary by an empty one when a list is emptied
PopClearsAll(st, request) ==
    LET list == st.cs[request]
        rest == SubSeq(list, 1, Len(list) - 1)
    IN [st EXCEPT !.cs = IF rest = <<>> THEN [k \in {} |-> <<>>]
                         ELSE [st.cs EXCEPT ![request] = rest]]

\* Pop reading the last scope without removing it
PopLeavesScope(st, request) == st

\* lines 137-140: pop the last scope; delete the key of an emptied list
Pop(st, request) ==
    LET list == st.cs[request]
        rest == SubSeq(list, 1, Len(list) - 1)
    IN [st EXCEPT !.cs = IF rest = <<>>
                         THEN [k \in (DOMAIN st.cs) \ {request} |-> st.cs[k]]
                         ELSE [st.cs EXCEPT ![request] = rest]]

\* lines 144-149: the error tag and the log event
TagError(st, scope, error, env) ==
    IF error = None THEN [st |-> st, exc |-> None]
    ELSE IF env.fault = "set_tag" THEN [st |-> st, exc |-> "Exception"]
    ELSE LET st1 == SetTag(st, scope, "error", "true")
         IN IF env.fault = "log_kv" THEN [st |-> st1, exc |-> "Exception"]
            ELSE [st |-> LogKv(st1, scope, error), exc |-> None]

\* TagStatus without the set_tag of line 151
TagStatusSkipsTag(st, scope, response, env) ==
    IF response = None THEN [st |-> st, exc |-> None]
    ELSE IF ~HasStatusCode(response) THEN [st |-> st, exc |-> "AttributeError"]
    ELSE [st |-> st, exc |-> IF env.fault = "set_tag" THEN "Exception" ELSE None]

\* lines 150-151: the status code tag
TagStatus(st, scope, response, env) ==
    IF response = None THEN [st |-> st, exc |-> None]
    ELSE IF ~HasStatusCode(response) THEN [st |-> st, exc |-> "AttributeError"]
    ELSE IF env.fault = "set_tag" THEN [st |-> st, exc |-> "Exception"]
    ELSE [st |-> SetTag(st, scope, "http.status_code", StatusCode(response)),
          exc |-> None]

\* line 153: scope.close()
CloseScope(st, request, scope, env) ==
    [st |-> Close(st, request, scope),
     exc |-> IF env.fault = "close" THEN "Exception" ELSE None]

\* FinishBody creating an empty list for a request that has no entry,
\* in place of the return of line 135
FinishBodySetsDefault(st, request, response, error, env) ==
    IF request \notin DOMAIN st.cs
    THEN [st |-> [st EXCEPT !.cs = st.cs @@ (request :> <<>>)],
          popped |-> NoScope, exc |-> None]
    ELSE LET list == st.cs[request]
             scope == list[Len(list)]
             st1 == Pop(st, request)
             e == TagError(st1, scope, error, env)
             r == TagStatus(e.st, scope, response, env)
             c == CloseScope(r.st, request, scope, env)
         IN IF e.exc # None THEN [st |-> e.st, popped |-> scope, exc |-> e.exc]
            ELSE IF r.exc # None THEN [st |-> r.st, popped |-> scope, exc |-> r.exc]
            ELSE [st |-> c.st, popped |-> scope, exc |-> c.exc]

\* the body of the try block, lines 134-153
FinishBody(st, request, response, error, env) ==
    IF request \notin DOMAIN st.cs
    THEN [st |-> st, popped |-> NoScope, exc |-> None]
    ELSE LET list == st.cs[request]
             scope == list[Len(list)]
             st1 == Pop(st, request)
         IN IF scope = NoScope
            THEN [st |-> st1, popped |-> scope, exc |-> None]
            ELSE LET e == TagError(st1, scope, error, env)
                 IN IF e.exc # None
                    THEN [st |-> e.st, popped |-> scope, exc |-> e.exc]
                    ELSE LET r == TagStatus(e.st, scope, response, env)
                         IN IF r.exc # None
                            THEN [st |-> r.st, popped |-> scope, exc |-> r.exc]
                            ELSE LET c == CloseScope(r.st, request, scope, env)
                                 IN [st |-> c.st, popped |-> scope, exc |-> c.exc]

\* line 154: except Exception: log, and return
FinishCatch(b) == [st |-> b.st, popped |-> b.popped, raised |-> None]

FinishTracing(st, request, response, error, env) ==
    FinishCatch(FinishBody(st, request, response, error, env))

\* ------------------------------------------------------- trace.wrapper
NoEnv == [extract |-> "ok", fault |-> "none", at |-> NoFaultAt]
NoEndEnv == [fault |-> "none"]
NoOutcome == <<"none", None>>

\* WrapperEnter skipping whenever _trace_all is set, whatever view is
WrapperEnterIgnoresView(st, request, view, view_func, env) ==
    IF trace_all
    THEN [st |-> st, skipped |-> TRUE, begin_calls |-> 0, ret |-> NoScope,
          raised |-> None]
    ELSE LET a == ApplyTracing(st, request, view_func, Attributes, env)
         IN [st |-> a.st, skipped |-> FALSE, begin_calls |-> 1, ret |-> a.ret,
             raised |-> a.raised]

\* lines 62-67: skip when tracing all and this is the decorator form;
\* otherwise begin
WrapperEnter(st, request, view, view_func, env) ==
    IF trace_all /\ view
    THEN [st |-> st, skipped |-> TRUE, begin_calls |-> 0, ret |-> NoScope,
          raised |-> None]
    ELSE LET a == ApplyTracing(st, request, view_func, Attributes, env)
         IN [st |-> a.st, skipped |-> FALSE, begin_calls |-> 1, ret |-> a.ret,
             raised |-> a.raised]

\* WrapperExit calling end without the error on line 70
WrapperExitDropsError(st, skipped, request, outcome, env) ==
    IF skipped
    THEN [st |-> st, end_calls |-> 0, response |-> None, error |-> None,
          popped |-> NoScope, raised |-> None, out |-> outcome]
    ELSE LET response == IF outcome[1] = "return" THEN outcome[2] ELSE None
             f == FinishTracing(st, request, response, None, env)
         IN [st |-> f.st, end_calls |-> 1, response |-> response, error |-> None,
             popped |-> f.popped, raised |-> f.raised,
             out |-> IF f.raised # None THEN <<"raise", f.raised>> ELSE outcome]

\* lines 63 and 68-74: the handler has returned a response or raised an error;
\* out is what leaves the wrapper
WrapperExit(st, skipped, request, outcome, env) ==
    IF skipped
    THEN [st |-> st, end_calls |-> 0, response |-> None, error |-> None,
          popped |-> NoScope, raised |-> None, out |-> outcome]
    ELSE IF outcome[1] = "raise"
    THEN LET f == FinishTracing(st, request, None, outcome[2], env)
         IN [st |-> f.st, end_calls |-> 1, response |-> None, error |-> outcome[2],
             popped |-> f.popped, raised |-> f.raised,
             out |-> IF f.raised # None THEN <<"raise", f.raised>> ELSE outcome]
    ELSE LET f == FinishTracing(st, request, outcome[2], None, env)
         IN [st |-> f.st, end_calls |-> 1, response |-> outcome[2], error |-> None,
             popped |-> f.popped, raised |-> f.raised,
             out |-> IF f.raised # None THEN <<"raise", f.raised>> ELSE outcome]

\* ------------------------------------------- initialize_global_tracer
Threads == {"t1", "t2"}
Tracers == {"tracerA", "tracerB"}
DefaultTracer == "default"    \* the no-op tracer opentracing.tracer starts as
NoCall == "no call"

\* DjangoTracing objects by their _tracer_implementation (line 17)
Holders == {None} \cup Tracers
TracerImplementation(tracing) == tracing

Idle == [pc |-> "idle", tracing |-> None, tracer |-> None]

\* line 184
InitGlobal ==
    /\ opentracing_tracer = DefaultTracer
    /\ complete = FALSE
    /\ thread = [t \in Threads |-> Idle]
    /\ init_calls = 0
    /\ assigns = 0
    /\ overlapped = FALSE
    /\ first = NoCall

\* line 182: initialize_global_tracer.complete = True
CompleteSet(c) == TRUE

\* line 173 reading a flag that is never up
IsCompleteNever(c) == FALSE

\* line 173: if initialize_global_tracer.complete
IsComplete(c) == c

\* lines 167 and 173-174: a thread calls initialize_global_tracer(tracing),
\* reads the flag and returns when it is set
ReadComplete(t, tracing) ==
    /\ thread[t].pc = "idle"
    /\ init_calls < MaxCalls
    /\ init_calls' = init_calls + 1
    /\ first' = IF init_calls = 0 THEN TracerImplementation(tracing) ELSE first
    /\ overlapped' = (overlapped \/ \E u \in Threads \ {t} : thread[u].pc # "idle")
    /\ thread' = IF IsComplete(complete) THEN thread
                 ELSE [thread EXCEPT ![t] = [pc |-> "178", tracing |-> tracing,
                                             tracer |-> None]]
    /\ UNCHANGED <<opentracing_tracer, complete, assigns>>
    /\ UNCHANGED tracking

\* line 178: tracer = tracing._tracer_implementation
ReadImplementation(t) ==
    /\ thread[t].pc = "178"
    /\ thread' = [thread EXCEPT ![t].pc = "179",
                                ![t].tracer = TracerImplementation(thread[t].tracing)]
    /\ UNCHANGED <<opentracing_tracer, complete, init_calls, assigns, overlapped, first>>
    /\ UNCHANGED tracking

\* lines 179-180: if tracer is not None: opentracing.tracer = tracer
AssignTracer(t) ==
    /\ thread[t].pc = "179"
    /\ IF thread[t].tracer # None
       THEN /\ opentracing_tracer' = thread[t].tracer
            /\ assigns' = assigns + 1
       ELSE UNCHANGED <<opentracing_tracer, assigns>>
    /\ thread' = [thread EXCEPT ![t].pc = "182"]
    /\ UNCHANGED <<complete, init_calls, overlapped, first>>
    /\ UNCHANGED tracking

\* line 182, and the return
SetComplete(t) ==
    /\ thread[t].pc = "182"
    /\ complete' = CompleteSet(complete)
    /\ thread' = [thread EXCEPT ![t] = Idle]
    /\ UNCHANGED <<opentracing_tracer, init_calls, assigns, overlapped, first>>
    /\ UNCHANGED tracking

NextGlobal ==
    \/ \E t \in Threads, tracing \in Holders : ReadComplete(t, tracing)
    \/ \E t \in Threads : ReadImplementation(t)
    \/ \E t \in Threads : AssignTracer(t)
    \/ \E t \in Threads : SetComplete(t)

\* The tracing object is constructed with a start_span_cb.  (Constructed
\* without one, _call_start_span_cb returns at once, which leaves the state as
\* a callback that returns leaves it.)
Init ==
    /\ current_scopes = [k \in {} |-> <<>>]
    /\ trace_all = FALSE
    /\ start_span_cb = TRUE
    /\ scopes = <<>>
    /\ active = [r \in Requests |-> NoScope]
    /\ frames = [r \in Requests |-> <<>>]
    /\ faults = 0
    /\ returned = NoOutcome
    /\ InitGlobal

InFlight == Len(frames["reqA"]) + Len(frames["reqB"])

\* The middleware of the integration layer turns trace-all mode on or off
\* while no wrapped handler is in flight.
SetTraceAll(b) ==
    /\ b # trace_all
    /\ InFlight = 0
    /\ trace_all' = b
    /\ returned' = NoOutcome
    /\ UNCHANGED <<current_scopes, start_span_cb, scopes, active, frames, faults>>
    /\ UNCHANGED global

\* A wrapped handler is invoked for request: by the framework, or by the
\* handler of the wrapper invocation now running for the same request.
\* The new frame records whether tracing was skipped, the scope that begin
\* started (opened), and whether the callback raised in begin (cb_raised).
\* cost is the number of collaborator calls that raise in this begin.
CallCost(request, view, env, cost) ==
    /\ InFlight < MaxDepth
    /\ Len(scopes) < MaxScopes
    /\ (trace_all /\ view) => env = NoEnv
    /\ faults + cost <= MaxFaults
    /\ faults' = faults + cost
    /\ LET depth == Len(frames[request])
           w == WrapperEnter(State, request, view, ViewName(depth), env)
           opened == IF Len(w.st.sc) > Len(scopes) THEN Len(w.st.sc) ELSE NoScope
       IN IF w.raised = None
          THEN /\ current_scopes' = w.st.cs
               /\ scopes' = Collect(w.st.sc, w.st.cs)
               /\ active' = w.st.act
               /\ frames' = [frames EXCEPT ![request] =
                     Append(@, [skipped |-> w.skipped, opened |-> opened,
                                cb_raised |-> ~w.skipped /\ CbRaises(env)])]
               /\ returned' = NoOutcome
          ELSE \* line 69: begin raised, so end runs with it and it is re-raised
               LET x == WrapperExit(w.st, FALSE, request, <<"raise", w.raised>>, NoEndEnv)
               IN /\ current_scopes' = x.st.cs
                  /\ scopes' = Collect(x.st.sc, x.st.cs)
                  /\ active' = x.st.act
                  /\ frames' = frames
                  /\ returned' = x.out
    /\ UNCHANGED <<trace_all, start_span_cb>>
    /\ UNCHANGED global

Call(request, view, env) == CallCost(request, view, env, BeginFaultCount(env))

\* Call with a tracer that accepts no inbound carrier: extract always raises
\* InvalidCarrierException or SpanContextCorruptedException, which is this
\* tracer's normal answer and not counted as a failure.
CallRejected(request, view, env) ==
    /\ (trace_all /\ view) \/ env.extract \in CarrierExceptions
    /\ CallCost(request, view, env, IF env.fault = "none" THEN 0 ELSE 1)

\* The handler of the innermost wrapper invocation for request finishes with
\* outcome: <<"return", response>> or <<"raise", error>>.
Finish(request, outcome, env) ==
    /\ frames[request] # <<>>
    /\ LET depth == Len(frames[request])
           f == frames[request][depth]
           response == IF outcome[1] = "return" THEN outcome[2] ELSE None
           error == IF outcome[1] = "raise" THEN outcome[2] ELSE None
           cost == IF f.skipped THEN 0 ELSE EndFaultCount(response, env)
           x == WrapperExit(State, f.skipped, request, outcome, env)
       IN /\ f.skipped => env = NoEndEnv
          /\ ~f.skipped => env \in EndEnvs(response, error)
          /\ faults + cost <= MaxFaults
          /\ faults' = faults + cost
          /\ current_scopes' = x.st.cs
          /\ scopes' = Collect(x.st.sc, x.st.cs)
          /\ active' = x.st.act
          /\ frames' = [frames EXCEPT ![request] = SubSeq(@, 1, depth - 1)]
          /\ returned' = x.out
    /\ UNCHANGED <<trace_all, start_span_cb>>
    /\ UNCHANGED global

HandlerReturn(request, response, env) == Finish(request, <<"return", response>>, env)

HandlerRaise(request, error, env) == Finish(request, <<"raise", error>>, env)

Next ==
    \/ \E b \in BOOLEAN : SetTraceAll(b)
    \/ \E request \in Requests, view \in BOOLEAN :
           \E env \in BeginEnvs(request) : Call(request, view, env)
    \/ \E request \in Requests, response \in Responses, env \in [fault : EndFaults] :
           HandlerReturn(request, response, env)
    \/ \E request \in Requests, error \in Errors, env \in [fault : EndFaults] :
           HandlerRaise(request, error, env)

Spec == Init /\ [][Next]_vars

\* the program with a tracer that accepts no inbound carrier
NextRejected ==
    \/ \E b \in BOOLEAN : SetTraceAll(b)
    \/ \E request \in Requests, view \in BOOLEAN :
           \E env \in BeginEnvs(request) : CallRejected(request, view, env)
    \/ \E request \in Requests, response \in Responses, env \in [fault : EndFaults] :
           HandlerReturn(request, response, env)
    \/ \E request \in Requests, error \in Errors, env \in [fault : EndFaults] :
           HandlerRaise(request, error, env)

SpecRejected == Init /\ [][NextRejected]_vars

\* threads calling initialize_global_tracer, before any request is handled
SpecGlobal == Init /\ [][NextGlobal]_vars

\* ======================================================== the claims
Outcomes == {<<"return", r>> : r \in Responses} \cup {<<"raise", e>> : e \in Errors}
EndEnvAll == [fault : EndFaults]
TopFrame(request) == frames[request][Len(frames[request])]

\* the frames of request whose wrapper called begin, outermost first
Traced(request) == SelectSeq(frames[request], LAMBDA f : ~f.skipped)

\* begin and end are paired on request: its stack holds exactly the scopes
\* opened by the begins still waiting for their end, in call order
Paired(request) ==
    LET fs == Traced(request)
    IN IF fs = <<>> THEN request \notin DOMAIN current_scopes
       ELSE /\ request \in DOMAIN current_scopes
            /\ Len(current_scopes[request]) = Len(fs)
            /\ \A i \in 1..Len(fs) :
                  /\ fs[i].opened # NoScope
                  /\ current_scopes[request][i] = fs[i].opened

\* C1: every begin pushes exactly one scope and every end pops the scope its
\* own begin opened (LIFO), whatever the tracer calls inside begin do: so
\* between operations the stack of a request is exactly the scopes opened by
\* the begins that still wait for their end.
C1_EachBeginPushesItsScope == \A request \in Requests : Paired(request)

\* C2: no scope is closed twice, and every scope popped from a stack has been
\* closed by the end that popped it, also when the response has no status
\* code or set_tag / log_kv raises.
C2_PoppedScopeClosedOnce ==
    \A s \in 1..Len(scopes) :
        /\ scopes[s].closes <= 1
        /\ (scopes[s].pushed /\ ~OnStack(current_scopes, s)) => scopes[s].closes = 1

\* a step in which a wrapper invocation of request starts its handler, and one
\* in which the innermost invocation of request ends
CallStep(request) == Len(frames'[request]) = Len(frames[request]) + 1
FinishStep(request) == Len(frames'[request]) = Len(frames[request]) - 1

\* C3: a wrapper that called begin calls end exactly once when its handler
\* finishes: with the error (and no response) when the handler raised, and
\* then the popped span gets error=true and a log event holding the error
\* (when set_tag and log_kv themselves succeed) and the handler's exception
\* leaves the wrapper; with the return value when the handler returned, and
\* then that value is returned.
C3_HandlerOutcomeReachesEnd ==
    [][\A request \in Requests :
          (FinishStep(request) /\ ~TopFrame(request).skipped) =>
              \A outcome \in Outcomes, env \in EndEnvAll :
                  Finish(request, outcome, env) =>
                      LET x == WrapperExit(State, FALSE, request, outcome, env)
                      IN /\ x.end_calls = 1
                         /\ returned' = outcome
                         /\ outcome[1] = "raise" =>
                               /\ x.error = outcome[2]
                               /\ x.response = None
                               /\ (x.popped # NoScope
                                     /\ env.fault \notin {"set_tag", "log_kv"}) =>
                                     /\ <<"error", "true">> \in x.st.sc[x.popped].tags
                                     /\ outcome[2] \in x.st.sc[x.popped].logs
                         /\ outcome[1] = "return" =>
                               /\ x.response = outcome[2]
                               /\ x.error = None]_vars

C3_Witness ==
    /\ returned = <<"raise", "ValueError">>
    /\ \E s \in 1..Len(scopes) : scopes[s] = Finished

C5_ExtractFailureFallsBack ==
    [][\A request \in Requests :
          CallStep(request) =>
              \A view \in BOOLEAN : \A env \in BeginEnvs(request) :
                  ( /\ env.extract \in {"InvalidCarrierException",
                                        "SpanContextCorruptedException"}
                    /\ env.fault \in {"none", "start_span_cb"}
                    /\ ~(trace_all /\ view)
                    /\ Call(request, view, env) ) =>
                      LET a == ApplyTracing(State, request,
                                            ViewName(Len(frames[request])),
                                            Attributes, env)
                      IN /\ a.raised = None
                         /\ a.ret = Len(scopes) + 1
                         /\ a.ret # NoScope
                         /\ Len(scopes') = Len(scopes) + 1
                         /\ scopes'[a.ret].child_of = NoScope
                         /\ request \in DOMAIN current_scopes'
                         /\ current_scopes'[request][Len(current_scopes'[request])]
                               = a.ret]_vars

\* reqB carries a valid context, so a scope of reqB started with no child_of
\* was started by the fallback
C5_Witness ==
    /\ "reqB" \in DOMAIN current_scopes
    /\ LET top == current_scopes["reqB"][Len(current_scopes["reqB"])]
       IN /\ scopes[top].child_of = NoScope
          /\ Cardinality(scopes[top].tags) = Len(TagCalls("reqB", Attributes))

\* C6: while the outermost begin of a request waits for its end, get_span
\* returns the span that begin opened, whatever nested begin/end pairs ran in
\* between; with no scope active it returns None.
C6_GetSpanIsOutermost ==
    \A request \in Requests :
        LET fs == Traced(request)
        IN /\ (fs # <<>> /\ fs[1].opened # NoScope) => GetSpan(request) = fs[1].opened
           /\ request \notin DOMAIN current_scopes => GetSpan(request) = NoScope

\* C7: once every begin on a request has been followed by its end, no entry
\* for the request remains in _current_scopes.
C7_NoEntryAfterLastEnd ==
    \A request \in Requests :
        frames[request] = <<>> => request \notin DOMAIN current_scopes

C7_Witness ==
    /\ InFlight = 0
    /\ Len(scopes) >= 2
    /\ \A s \in 1..Len(scopes) : scopes[s] = Finished
    /\ DOMAIN current_scopes = {}

\* C8: between operations every key of _current_scopes maps to a non-empty
\* list of scopes, each started and not closed.
C8_StacksNonEmptyAndOpen ==
    \A request \in DOMAIN current_scopes :
        /\ current_scopes[request] # <<>>
        /\ \A i \in 1..Len(current_scopes[request]) :
              LET s == current_scopes[request][i]
              IN /\ s \in 1..Len(scopes)
                 /\ scopes[s].pushed
                 /\ scopes[s].closes = 0

C8_Witness ==
    \E request \in DOMAIN current_scopes :
        /\ Len(current_scopes[request]) = 2
        /\ \A i \in 1..2 : scopes[current_scopes[request][i]].closes = 0

\* C9: of two nested begins on one request the inner span's parent is the
\* outer span, for every inbound carrier.
C9_InnerParentIsOuter ==
    \A request \in Requests :
        LET fs == Traced(request)
        IN \A i \in 1..Len(fs) :
              (i > 1 /\ fs[i].opened # NoScope /\ fs[i - 1].opened # NoScope) =>
                  scopes[fs[i].opened].parent = fs[i - 1].opened

\* C10: with _trace_all set and view true the wrapper calls neither begin nor
\* end, leaves _current_scopes (and every scope) alone and passes on what its
\* handler returned or raised; in every other case it calls begin once before
\* the handler and end once after it.
C10_SkipOnlyWhenTraceAllAndView ==
    [][/\ \A request \in Requests :
             CallStep(request) =>
                 \A view \in BOOLEAN : \A env \in BeginEnvs(request) :
                     Call(request, view, env) =>
                         LET w == WrapperEnter(State, request, view,
                                               ViewName(Len(frames[request])), env)
                         IN /\ w.skipped = (trace_all /\ view)
                            /\ TopFrame(request)'.skipped = w.skipped
                            /\ w.skipped =>
                                  /\ w.begin_calls = 0
                                  /\ UNCHANGED <<current_scopes, scopes, active>>
                            /\ ~w.skipped => w.begin_calls = 1
       /\ \A request \in Requests :
             FinishStep(request) =>
                 \A outcome \in Outcomes, env \in EndEnvAll :
                     Finish(request, outcome, env) =>
                         LET f == TopFrame(request)
                             x == WrapperExit(State, f.skipped, request, outcome, env)
                         IN /\ f.skipped =>
                                  /\ x.end_calls = 0
                                  /\ returned' = outcome
                                  /\ UNCHANGED <<current_scopes, scopes, active>>
                            /\ ~f.skipped => x.end_calls = 1]_vars

C10_Witness ==
    /\ trace_all
    /\ returned[1] # "none"
    /\ scopes = <<>>
    /\ faults = 0

\* C11: over any sequence of initialize_global_tracer calls (each call
\* finished before the next starts), opentracing.tracer is assigned at most
\* once; when the first call is passed a holder with a concrete tracer, that
\* tracer is the process-wide default from then on; and once the first call
\* has returned the flag is set and no later call changes opentracing.tracer
\* or the flag, whatever holder it is passed.
C11_InstalledOnceThenNoOp ==
    ~overlapped =>
        /\ assigns <= 1
        /\ (init_calls >= 1 /\ \A t \in Threads : thread[t].pc = "idle") =>
              /\ complete
              /\ opentracing_tracer = IF first \in Tracers THEN first ELSE DefaultTracer
              /\ assigns = IF first \in Tracers THEN 1 ELSE 0

C11_Witness ==
    /\ ~overlapped
    /\ init_calls = MaxCalls
    /\ \A t \in Threads : thread[t].pc = "idle"
    /\ first = "tracerA"
    /\ opentracing_tracer = "tracerA"
    /\ complete

\* C17: when two threads call initialize_global_tracer at once with holders
\* of different concrete tracers, and their steps (read the flag at line 173,
\* assign at line 180, set the flag at line 182) interleave,
\* opentracing.tracer is still assigned at most once.
C17_ConcurrentCallsAssignOnce ==
    ( /\ \A t \in Threads : thread[t].pc # "idle" /\ thread[t].tracing \in Tracers
      /\ thread["t1"].tracing # thread["t2"].tracing ) => assigns <= 1

TagKeys(span) == {t[1] : t \in span.tags}

\* C12: when end pops a span and the span's set_tag and log_kv return: with a
\* result that has a status code, the span's http.status_code tag is that
\* status code; with an error, the span's error tag is true and a log event
\* holds the error object; with neither, no error tag and no status code tag
\* is set and the scope is closed all the same.
C12_EndTagsByOutcome ==
    [][\A request \in Requests :
          (FinishStep(request) /\ ~TopFrame(request).skipped) =>
              \A outcome \in Outcomes, env \in EndEnvAll :
                  (env.fault \in {"none", "close"} /\ Finish(request, outcome, env)) =>
                      LET x == WrapperExit(State, FALSE, request, outcome, env)
                      IN x.popped # NoScope =>
                          LET span == x.st.sc[x.popped]
                          IN /\ (x.response # None /\ HasStatusCode(x.response)) =>
                                   /\ <<"http.status_code", StatusCode(x.response)>>
                                         \in span.tags
                                   /\ "error" \notin TagKeys(span)
                                   /\ span.closes = 1
                             /\ x.error # None =>
                                   /\ <<"error", "true">> \in span.tags
                                   /\ x.error \in span.logs
                                   /\ "http.status_code" \notin TagKeys(span)
                                   /\ span.closes = 1
                             /\ (x.response = None /\ x.error = None) =>
                                   /\ "error" \notin TagKeys(span)
                                   /\ "http.status_code" \notin TagKeys(span)
                                   /\ span.logs = {}
                                   /\ span.closes = 1]_vars

\* the inner of two nested handlers has returned a 404 response and its span
\* is finished, the outer one is still running
C12_Witness ==
    /\ returned = <<"return", "resp404">>
    /\ faults = 0
    /\ ~trace_all
    /\ Len(scopes) = 2
    /\ scopes[2] = Finished
    /\ \E request \in Requests :
           /\ Len(frames[request]) = 1
           /\ request \in DOMAIN current_scopes
           /\ current_scopes[request] = <<1>>

\* C16: whenever start_active_span has succeeded inside begin, the scope it
\* returned is on the stack of the request when begin returns, whichever
\* later step of begin raises (inject in the fallback, set_tag, a request
\* accessor, the callback): every scope the tracer has started was pushed.
C16_StartedScopeIsPushed == \A s \in 1..Len(scopes) : scopes[s].pushed

StandardTags(request) ==
    {<<"component", "django">>, <<"span.kind", "server">>,
     <<"http.method", Method(request)>>, <<"http.url", FullPath(request)>>}

\* C13: when the user's start_span_cb raises, begin does not raise and returns
\* the new scope, the scope is on top of the stack of the request with its
\* standard tags set, and the wrapper goes on to run its handler.
C13_CallbackFailureSwallowed ==
    [][\A request \in Requests :
          CallStep(request) =>
              \A view \in BOOLEAN : \A env \in BeginEnvs(request) :
                  ( /\ env.fault = "start_span_cb"
                    /\ ~(trace_all /\ view)
                    /\ Call(request, view, env) ) =>
                      LET a == ApplyTracing(State, request,
                                            ViewName(Len(frames[request])),
                                            Attributes, env)
                      IN /\ CbRaises(env)
                         /\ a.raised = None
                         /\ a.ret = Len(scopes) + 1
                         /\ request \in DOMAIN current_scopes'
                         /\ current_scopes'[request][Len(current_scopes'[request])]
                               = a.ret
                         /\ StandardTags(request) \subseteq scopes'[a.ret].tags
                         /\ scopes'[a.ret].closes = 0
                         /\ TopFrame(request)'.opened = a.ret
                         /\ returned' = NoOutcome]_vars

C13_Witness ==
    \E request \in DOMAIN current_scopes :
        /\ frames[request] # <<>>
        /\ TopFrame(request).cb_raised
        /\ TopFrame(request).opened = current_scopes[request][Len(current_scopes[request])]
        /\ StandardTags(request) \subseteq scopes[TopFrame(request).opened].tags

\* the stack of request as the scopes it holds, bottom first
StackOf(st, request) ==
    IF request \in DOMAIN st.cs
    THEN [i \in 1..Len(st.cs[request]) |-> st.sc[st.cs[request][i]]]
    ELSE <<>>

\* the state with the entries of every other request removed
Alone(st, request) ==
    [st EXCEPT !.cs = [k \in (DOMAIN st.cs) \cap {request} |-> st.cs[k]],
               !.act = [q \in Requests |-> IF q = request THEN st.act[q] ELSE NoScope]]

\* a step on one request leaves the entry of other and the scopes on it alone
Untouched(other) ==
    /\ (other \in DOMAIN current_scopes') = (other \in DOMAIN current_scopes)
    /\ other \in DOMAIN current_scopes =>
          /\ current_scopes'[other] = current_scopes[other]
          /\ \A i \in 1..Len(current_scopes[other]) :
                scopes'[current_scopes[other][i]] = scopes[current_scopes[other][i]]

\* C14: begin and end on one request leave the stack and the scopes of every
\* other request unchanged, and the stack they leave for their own request is
\* the one they leave when the other requests have no entries at all: so
\* after any interleaving each request's stack is what its own operations
\* alone produce.
C14_RequestsDoNotInterfere ==
    [][\A request \in Requests :
          /\ CallStep(request) =>
                /\ \A other \in Requests \ {request} : Untouched(other)
                /\ \A view \in BOOLEAN : \A env \in BeginEnvs(request) :
                      Call(request, view, env) =>
                          LET depth == Len(frames[request])
                              w == WrapperEnter(State, request, view,
                                                ViewName(depth), env)
                              wa == WrapperEnter(Alone(State, request), request, view,
                                                 ViewName(depth), env)
                          IN /\ StackOf(w.st, request) = StackOf(wa.st, request)
                             /\ w.ret = wa.ret
          /\ FinishStep(request) =>
                /\ \A other \in Requests \ {request} : Untouched(other)
                /\ \A outcome \in Outcomes, env \in EndEnvAll :
                      Finish(request, outcome, env) =>
                          LET f == TopFrame(request)
                              x == WrapperExit(State, f.skipped, request, outcome, env)
                              xa == WrapperExit(Alone(State, request), f.skipped,
                                                request, outcome, env)
                          IN /\ StackOf(x.st, request) = StackOf(xa.st, request)
                             /\ x.popped = xa.popped
                             /\ x.out = xa.out]_vars

\* begin on reqA, begin on reqB, end on reqA: reqB's scope is still on its
\* stack, unclosed
C14_Witness ==
    /\ ~trace_all
    /\ faults = 0
    /\ returned # NoOutcome
    /\ frames["reqA"] = <<>>
    /\ Len(frames["reqB"]) = 1
    /\ "reqB" \in DOMAIN current_scopes
    /\ current_scopes["reqB"] = <<2>>
    /\ scopes[2].closes = 0
    /\ scopes[1] = Finished

\* C15: end on a request that has no entry in _current_scopes does nothing:
\* it closes no scope, sets no tag and records no log event on any span,
\* leaves _current_scopes unchanged for every key, and returns without
\* raising, so that what the handler returned or raised leaves the wrapper.
C15_EndWithoutEntryIsNoOp ==
    [][\A request \in Requests :
          ( /\ FinishStep(request)
            /\ ~TopFrame(request).skipped
            /\ request \notin DOMAIN current_scopes ) =>
              \A outcome \in Outcomes, env \in EndEnvAll :
                  Finish(request, outcome, env) =>
                      LET x == WrapperExit(State, FALSE, request, outcome, env)
                      IN /\ x.end_calls = 1
                         /\ x.popped = NoScope
                         /\ x.raised = None
                         /\ x.st = State
                         /\ UNCHANGED <<current_scopes, scopes, active>>
                         /\ returned' = outcome]_vars

\* the one begin of the behaviour failed before it started a scope, and the
\* end of the same wrapper has run
C15_Witness ==
    /\ ~trace_all
    /\ InFlight = 0
    /\ faults = 1
    /\ scopes = <<>>
    /\ returned # NoOutcome
    /\ DOMAIN current_scopes = {}

AttributeNames == {Attributes[i] : i \in 1..Len(Attributes)}

\* C18: after a begin whose tracer and span calls succeed the new span has
\* the component, span.kind (server), http.method and http.url tags, and for
\* each name of the attribute list a tag of that name if and only if the
\* request has the attribute and its string form is not empty (the tag then
\* holds that string); it has no other tag.
C18_TagsOfNewSpan ==
    [][\A request \in Requests :
          CallStep(request) =>
              \A view \in BOOLEAN : \A env \in BeginEnvs(request) :
                  ( /\ env.fault \in {"none", "start_span_cb"}
                    /\ env.extract # "Exception"
                    /\ ~(trace_all /\ view)
                    /\ Call(request, view, env) ) =>
                      LET span == scopes'[Len(scopes) + 1]
                      IN /\ Len(scopes') = Len(scopes) + 1
                         /\ StandardTags(request) \subseteq span.tags
                         /\ \A attr \in AttributeNames :
                               /\ attr \in TagKeys(span) <=>
                                     (HasAttr(request, attr) /\ GetAttr(request, attr) # "")
                               /\ attr \in TagKeys(span) =>
                                     <<attr, GetAttr(request, attr)>> \in span.tags
                         /\ TagKeys(span) \subseteq
                               TagKeys([tags |-> StandardTags(request)])
                                   \cup AttributeNames]_vars

\* reqA has user_id = "alice" and an empty session: its span is tagged with
\* user_id and not with session
C18_Witness ==
    /\ "reqA" \in DOMAIN current_scopes
    /\ LET span == scopes[current_scopes["reqA"][1]]
       IN /\ span.tags = StandardTags("reqA") \cup {<<"user_id", "alice">>}
          /\ "session" \notin TagKeys(span)

====
